---- MODULE Spec2Model ----
(***************************************************************************)
(* Model of 370.py: three curve-fitting pipelines (a, b, c) executed at    *)
(* module level, one after another.  Each pipeline builds a data           *)
(* container, runs an external least-squares fit, prints the fit report,   *)
(* evaluates the fitted model on a densified grid, writes a chart file     *)
(* and shows the chart.                                                    *)
(*                                                                         *)
(* Numbers.  The abscissae are integers; values computed from them (the    *)
(* grid, the fitted curve) are exact rationals [n, d].  The abscissae of   *)
(* pipeline b, 1/wavelength^2, are kept in fixed point with Scale units    *)
(* per 1/nm^2.  The ordinates and the uncertainties are never read by the  *)
(* program itself (they are handed to the fitting and plotting libraries), *)
(* so an ordinate or uncertainty array is carried by its shape only.       *)
(*                                                                         *)
(* External collaborators.  The optimizer's result is a nondeterministic   *)
(* choice of parameter values; every library call that the program does    *)
(* not guard (loadtxt, the container build, do_fit, savefig) may raise.    *)
(***************************************************************************)
EXTENDS Integers, Sequences, FiniteSets, TLC

VARIABLES
    pc,          \* module-level statement being executed
    step,        \* position inside the running *_fit function ("idle" outside)
    globals,     \* module-level names defined so far
    args,        \* arguments of the running *_fit call
    data,        \* local `data` (the XYContainer)
    results,     \* local `results['parameter_values']`
    data_range,  \* local `data_range`
    y_fit,       \* local `y_fit`
    events,      \* history: the steps executed so far, in order
    written,     \* history: the chart files written so far, in order
    error        \* the uncaught exception that ended the run, if any

vars == <<pc, step, globals, args, data, results, data_range, y_fit,
          events, written, error>>

(***************************************************************************)
(* Bounds of the checked instances.                                        *)
(***************************************************************************)
MaxLen == 2
MaxX == 2
MaxPar == 3

XVals == 0..MaxX
ParVals == 0..MaxPar
Pipelines == {"a", "b", "c"}

(***************************************************************************)
(* Exact rational arithmetic.                                              *)
(***************************************************************************)
R(k) == [n |-> k, d |-> 1]
RAdd(p, q) == [n |-> p.n * q.d + q.n * p.d, d |-> p.d * q.d]
RSub(p, q) == [n |-> p.n * q.d - q.n * p.d, d |-> p.d * q.d]
RMul(p, q) == [n |-> p.n * q.n, d |-> p.d * q.d]
RDivInt(p, k) == [n |-> p.n, d |-> p.d * k]
REq(p, q) == p.n * q.d = q.n * p.d

(***************************************************************************)
(* Shapes of the arrays the program only passes on.                        *)
(***************************************************************************)
Scalar == [kind |-> "scalar", size |-> 1]
Arr(k) == [kind |-> "array", size |-> k]
np_size(x) == Len(x)
np_full(k) == Arr(k)

None == [kind |-> "none", size |-> 0]
NoArgs == [x |-> <<>>, y |-> None, y_err |-> None]
NoResults == [k \in {} |-> 0]
NoGlobals == [k \in {} |-> 0]

(***************************************************************************)
(* xy_data: the container of x, y and the two uncertainties.  XYContainer  *)
(* and add_error accept a scalar uncertainty or one value per point.       *)
(***************************************************************************)
xy_data(x_data, y_data, x_err, y_err) ==
    [x_data |-> x_data, y_data |-> y_data, x_err |-> x_err, y_err |-> y_err]

Broadcasts(err, k) == err.kind = "scalar" \/ (err.kind = "array" /\ err.size = k)

ShapesAgree(x_data, y_data, x_err, y_err) ==
    /\ y_data.kind = "array"
    /\ y_data.size = np_size(x_data)
    /\ Broadcasts(x_err, np_size(x_data))
    /\ Broadcasts(y_err, np_size(x_data))

(***************************************************************************)
(* The model functions.  cos(deg2rad(x) + b)^2 is transcendental: a_model  *)
(* keeps it as an uninterpreted term.                                      *)
(***************************************************************************)
a_model(x, i_0, b, i_1) ==
    [scale |-> i_0, cos2 |-> [deg |-> x, rad |-> b], offset |-> i_1]

b_model_swapped(x, a, b) == RAdd(RMul(x, R(a)), R(b))

b_model(x, a, b) == RAdd(RMul(x, R(b)), R(a))

c_model_swapped(x, a, b) == RAdd(RMul(x, R(b)), R(a))

c_model_offset_dropped(x, a, b) == RMul(x, R(a))

c_model(x, a, b) == RAdd(RMul(x, R(a)), R(b))

ParamNames(p) == IF p = "a" THEN {"i_0", "b", "i_1"} ELSE {"a", "b"}

Model(p, x, res) ==
    CASE p = "a" -> a_model(x, res["i_0"], res["b"], res["i_1"])
      [] p = "b" -> b_model(x, res["a"], res["b"])
      [] p = "c" -> c_model(x, res["a"], res["b"])

(***************************************************************************)
(* np.linspace(start, stop, num) with its default endpoint=True: the       *)
(* points arange(num) * step + start with step = (stop - start)/(num - 1), *)
(* the last point then set to stop.                                        *)
(***************************************************************************)
GridFactor == 5

linspace_open(start, stop, num) ==
    LET delta == RSub(stop, start)
        step_ == RDivInt(delta, num)
    IN  [i \in 1..num |-> RAdd(RMul(R(i - 1), step_), start)]

linspace(start, stop, num) ==
    LET div == num - 1
        delta == RSub(stop, start)
        step_ == RDivInt(delta, div)
        y0 == [i \in 1..num |-> R(i - 1)]
        y1 == IF div > 0
              THEN IF step_.n = 0
                   THEN [i \in 1..num |-> RMul(RDivInt(y0[i], div), delta)]
                   ELSE [i \in 1..num |-> RMul(y0[i], step_)]
              ELSE [i \in 1..num |-> RMul(y0[i], delta)]
        y2 == [i \in 1..num |-> RAdd(y1[i], start)]
    IN  IF num > 1 THEN [y2 EXCEPT ![num] = stop] ELSE y2

(***************************************************************************)
(* The chart file each pipeline writes.                                    *)
(***************************************************************************)
Filename_shared(p) == "370_a.pdf"

Filename(p) ==
    CASE p = "a" -> "370_a.pdf"
      [] p = "b" -> "370_b.pdf"
      [] p = "c" -> "370_c.pdf"

(***************************************************************************)
(* Statement order.  NextStep: inside a *_fit function; NextStmt: at       *)
(* module level.                                                           *)
(***************************************************************************)
NextStep_show_first(s) ==
    CASE s = "xy_data" -> "do_fit"
      [] s = "do_fit" -> "report"
      [] s = "report" -> "linspace"
      [] s = "linspace" -> "show"
      [] s = "show" -> "savefig"
      [] s = "savefig" -> "returned"

NextStep(s) ==
    CASE s = "xy_data" -> "do_fit"
      [] s = "do_fit" -> "report"
      [] s = "report" -> "linspace"
      [] s = "linspace" -> "savefig"
      [] s = "savefig" -> "show"
      [] s = "show" -> "returned"

NextStmt_c_before_b(s) ==
    CASE s = "a_load" -> "a_call"
      [] s = "a_call" -> "c_data"
      [] s = "c_data" -> "c_call"
      [] s = "c_call" -> "b_data"
      [] s = "b_data" -> "b_call"
      [] s = "b_call" -> "exit"

NextStmt(s) ==
    CASE s = "a_load" -> "a_call"
      [] s = "a_call" -> "b_data"
      [] s = "b_data" -> "b_call"
      [] s = "b_call" -> "c_data"
      [] s = "c_data" -> "c_call"
      [] s = "c_call" -> "exit"

Pipe(s) ==
    CASE s \in {"a_load", "a_call"} -> "a"
      [] s \in {"b_data", "b_call"} -> "b"
      [] s \in {"c_data", "c_call"} -> "c"

(***************************************************************************)
(* The literal data of pipelines b and c.                                  *)
(***************************************************************************)
Scale == 10^9
b_wavelength == <<694, 620, 568, 520, 488, 458, 430>>
b_angle == <<325, 207, -7, -216, -418, -615, -719>>     \* tenths of a degree
c_concentration == <<5, 4, 3, 2, 1>>
c_angle == <<290, 359, 386, 539, 666>>                   \* tenths of a degree

InvSquare(w) == Scale \div (w * w)


(***************************************************************************)
(* The contents a.txt may have: missing, or a table of rows.  Of a row     *)
(* the model keeps column 3, the angle.                                    *)
(***************************************************************************)
Series(lo) == UNION {[1..k -> XVals] : k \in lo..MaxLen}
Tables == Series(0)

Event(p, s, ok) == [pipe |-> p, step |-> s, ok |-> ok]

(***************************************************************************)
(* An exception nobody catches: the interpreter unwinds the running call   *)
(* and ends the run.                                                       *)
(***************************************************************************)
Uncaught(p, s) ==
    /\ error' = [pipe |-> p, step |-> s]
    /\ events' = Append(events, Event(p, s, FALSE))
    /\ pc' = "exit"
    /\ step' = "idle"
    /\ args' = NoArgs
    /\ data' = None
    /\ results' = NoResults
    /\ data_range' = <<>>
    /\ y_fit' = <<>>
    /\ UNCHANGED <<globals, written>>

(***************************************************************************)
(* Module level, pipeline a: np.loadtxt('a.txt') and the four column       *)
(* slices.  loadtxt returns a one-dimensional array for a file of fewer    *)
(* than two rows, which a_data[:, 3] cannot index.                         *)
(***************************************************************************)
a_load ==
    /\ pc = "a_load"
    /\ \E table \in Tables :
          /\ Len(table) >= 2
          /\ globals' = globals @@
                [k \in {"a_angle", "a_angle_err", "a_voltage", "a_voltage_err"} |->
                    IF k = "a_angle" THEN table ELSE Arr(Len(table))]
    /\ events' = Append(events, Event("a", "load", TRUE))
    /\ pc' = NextStmt(pc)
    /\ UNCHANGED <<step, args, data, results, data_range, y_fit, written, error>>

a_load_skipped ==
    /\ pc = "a_load"
    /\ error' = [pipe |-> "a", step |-> "load"]
    /\ events' = Append(events, Event("a", "load", FALSE))
    /\ pc' = "b_data"
    /\ UNCHANGED <<step, globals, args, data, results, data_range, y_fit, written>>

a_load_fail ==
    /\ pc = "a_load"
    /\ Uncaught("a", "load")

(***************************************************************************)
(* Module level, pipelines b and c: the literal arrays.                    *)
(***************************************************************************)
b_data ==
    /\ pc = "b_data"
    /\ globals' = globals @@
          [k \in {"b_angle", "b_angle_err", "b_wavelength"} |->
              CASE k = "b_angle" -> Arr(np_size(b_angle))
                [] k = "b_angle_err" -> np_full(np_size(b_angle))
                [] k = "b_wavelength" -> b_wavelength]
    /\ events' = Append(events, Event("b", "load", TRUE))
    /\ pc' = NextStmt(pc)
    /\ UNCHANGED <<step, args, data, results, data_range, y_fit, written, error>>

c_data ==
    /\ pc = "c_data"
    /\ globals' = globals @@
          [k \in {"c_angle", "c_angle_err", "c_concentration"} |->
              CASE k = "c_angle" -> Arr(np_size(c_angle))
                [] k = "c_angle_err" -> np_full(np_size(c_angle))
                [] k = "c_concentration" -> c_concentration]
    /\ events' = Append(events, Event("c", "load", TRUE))
    /\ pc' = NextStmt(pc)
    /\ UNCHANGED <<step, args, data, results, data_range, y_fit, written, error>>

(***************************************************************************)
(* Module level: the three call sites.                                     *)
(***************************************************************************)
CallArgs(p) ==
    CASE p = "a" -> [x |-> globals["a_angle"], y |-> globals["a_voltage"],
                     x_err |-> globals["a_angle_err"],
                     y_err |-> globals["a_voltage_err"]]
      [] p = "b" -> [x |-> [i \in 1..Len(globals["b_wavelength"]) |->
                               InvSquare(globals["b_wavelength"][i])],
                     y |-> globals["b_angle"], y_err |-> globals["b_angle_err"]]
      [] p = "c" -> [x |-> globals["c_concentration"],
                     y |-> globals["c_angle"], y_err |-> globals["c_angle_err"]]

Call(p) ==
    /\ pc = p \o "_call"
    /\ step = "idle"
    /\ args' = CallArgs(p)
    /\ step' = "xy_data"
    /\ UNCHANGED <<pc, globals, data, results, data_range, y_fit, events, written, error>>

Return(p) ==
    /\ pc = p \o "_call"
    /\ step = "returned"
    /\ pc' = NextStmt(pc)
    /\ step' = "idle"
    /\ args' = NoArgs
    /\ data' = None
    /\ results' = NoResults
    /\ data_range' = <<>>
    /\ y_fit' = <<>>
    /\ UNCHANGED <<globals, events, written, error>>

(***************************************************************************)
(* The body of a_fit, b_fit and c_fit, statement by statement; p is the    *)
(* pipeline whose function is running.                                     *)
(***************************************************************************)
Running(p, s) == pc = p \o "_call" /\ step = s

\* data = xy_data(x, y, x_err, y_err); b_fit and c_fit pass x_err = 0
XyData(p) ==
    /\ Running(p, "xy_data")
    /\ LET x_err == IF p = "a" THEN args.x_err ELSE Scalar
       IN  /\ ShapesAgree(args.x, args.y, x_err, args.y_err)
           /\ data' = xy_data(args.x, args.y, x_err, args.y_err)
    /\ events' = Append(events, Event(p, "xy_data", TRUE))
    /\ step' = NextStep(step)
    /\ UNCHANGED <<pc, globals, args, results, data_range, y_fit, written, error>>

XyDataFail(p) ==
    /\ Running(p, "xy_data")
    /\ Uncaught(p, "xy_data")

\* fit = Fit(data, model_function); results = fit.do_fit()
DoFit(p) ==
    /\ Running(p, "do_fit")
    /\ results' \in [ParamNames(p) -> ParVals]
    /\ events' = Append(events, Event(p, "do_fit", TRUE))
    /\ step' = NextStep(step)
    /\ UNCHANGED <<pc, globals, args, data, data_range, y_fit, written, error>>

DoFitFail_swallowed(p) ==
    /\ Running(p, "do_fit")
    /\ results' = [k \in ParamNames(p) |-> 0]
    /\ events' = Append(events, Event(p, "do_fit", FALSE))
    /\ step' = NextStep(step)
    /\ UNCHANGED <<pc, globals, args, data, data_range, y_fit, written, error>>

DoFitFail(p) ==
    /\ Running(p, "do_fit")
    /\ Uncaught(p, "do_fit")

\* fit.report()
Report(p) ==
    /\ Running(p, "report")
    /\ events' = Append(events, Event(p, "report", TRUE))
    /\ step' = NextStep(step)
    /\ UNCHANGED <<pc, globals, args, data, results, data_range, y_fit, written, error>>

\* the parameter values, data_range = np.linspace(...), y_fit = model(data_range, ...)
Evaluate(p) ==
    /\ Running(p, "linspace")
    /\ LET x == args.x
           grid == linspace(R(x[1]), R(x[np_size(x)]), np_size(x) * GridFactor)
       IN  /\ data_range' = grid
           /\ y_fit' = [i \in 1..Len(grid) |-> Model(p, grid[i], results)]
    /\ events' = Append(events, Event(p, "linspace", TRUE))
    /\ step' = NextStep(step)
    /\ UNCHANGED <<pc, globals, args, data, results, written, error>>

\* the figure (subplots, errorbar, plot, labels, legend) and fig.savefig(...)
Savefig(p) ==
    /\ Running(p, "savefig")
    /\ written' = Append(written, [pipe |-> p, name |-> Filename(p)])
    /\ events' = Append(events, Event(p, "savefig", TRUE))
    /\ step' = NextStep(step)
    /\ UNCHANGED <<pc, globals, args, data, results, data_range, y_fit, error>>

SavefigFail_swallowed(p) ==
    /\ Running(p, "savefig")
    /\ events' = Append(events, Event(p, "savefig", FALSE))
    /\ step' = NextStep(step)
    /\ UNCHANGED <<pc, globals, args, data, results, data_range, y_fit, written, error>>

SavefigFail(p) ==
    /\ Running(p, "savefig")
    /\ Uncaught(p, "savefig")

\* plt.show(), after which the function returns
Show(p) ==
    /\ Running(p, "show")
    /\ events' = Append(events, Event(p, "show", TRUE))
    /\ step' = NextStep(step)
    /\ UNCHANGED <<pc, globals, args, data, results, data_range, y_fit, written, error>>

(***************************************************************************)
(* The program: 370.py run as a script.                                    *)
(***************************************************************************)
Init ==
    /\ pc = "a_load"
    /\ step = "idle"
    /\ globals = NoGlobals
    /\ args = NoArgs
    /\ data = None
    /\ results = NoResults
    /\ data_range = <<>>
    /\ y_fit = <<>>
    /\ events = <<>>
    /\ written = <<>>
    /\ error = [pipe |-> "none", step |-> "none"]

Body ==
    \E p \in Pipelines :
        \/ XyData(p)
        \/ XyDataFail(p)
        \/ DoFit(p)
        \/ DoFitFail(p)
        \/ Report(p)
        \/ Evaluate(p)
        \/ Savefig(p)
        \/ SavefigFail(p)
        \/ Show(p)

Next ==
    \/ a_load
    \/ a_load_fail
    \/ b_data
    \/ c_data
    \/ \E p \in Pipelines : Call(p)
    \/ \E p \in Pipelines : Return(p)
    \/ Body

Spec == Init /\ [][Next]_vars

(***************************************************************************)
(* The fit functions called on their own: one call of a_fit, b_fit or      *)
(* c_fit with arguments drawn from the bounded sets.                       *)
(***************************************************************************)
Errs == {Scalar} \cup {Arr(k) : k \in 1..MaxLen}

FitArgs(p) ==
    IF p = "a"
    THEN [x : Series(1), y : {Arr(k) : k \in 1..MaxLen}, x_err : Errs, y_err : Errs]
    ELSE [x : Series(1), y : {Arr(k) : k \in 1..MaxLen}, y_err : Errs]

FitInit ==
    /\ \E p \in Pipelines :
          /\ pc = p \o "_call"
          /\ args \in FitArgs(p)
    /\ step = "xy_data"
    /\ globals = NoGlobals
    /\ data = None
    /\ results = NoResults
    /\ data_range = <<>>
    /\ y_fit = <<>>
    /\ events = <<>>
    /\ written = <<>>
    /\ error = [pipe |-> "none", step |-> "none"]

FitNext == Body

FitSpec == FitInit /\ [][FitNext]_vars

(***************************************************************************)
(* Properties.                                                             *)
(***************************************************************************)
GridBuilt == step \in {"savefig", "show", "returned"}

Idx(p, s) == {i \in 1..Len(events) : events[i].pipe = p /\ events[i].step = s}

WrittenBy(p) == {i \in 1..Len(written) : written[i].pipe = p}

Rank(p) == CASE p = "a" -> 1 [] p = "b" -> 2 [] p = "c" -> 3

StepRank(s) ==
    CASE s = "load" -> 0
      [] s = "xy_data" -> 1
      [] s = "do_fit" -> 2
      [] s = "report" -> 3
      [] s = "linspace" -> 4
      [] s = "savefig" -> 5
      [] s = "show" -> 6

\* C1: in every pipeline, for every x-series of length N >= 1, the grid has
\* exactly 5*N points, starts at x[0] and ends at x[N-1], in the series'
\* own order.
C1_GridSpansSeries ==
    GridBuilt =>
        /\ Len(args.x) >= 1
        /\ Len(data_range) = 5 * Len(args.x)
        /\ REq(data_range[1], R(args.x[1]))
        /\ REq(data_range[Len(data_range)], R(args.x[Len(args.x)]))

C1_Witness ==
    /\ GridBuilt
    /\ Len(args.x) = 2
    /\ args.x[1] > args.x[2]
    /\ Len(data_range) = 10

\* C2 as stated: c_model(x, a, b) returns a + b*x (a the intercept, b the
\* slope) at every grid point and for every fitted a and b.
C2_InterceptA ==
    (pc = "c_call" /\ GridBuilt) =>
        \A i \in 1..Len(y_fit) :
            REq(y_fit[i], RAdd(R(results["a"]), RMul(R(results["b"]), data_range[i])))

\* C2 amended: c_model(x, a, b) returns a*x + b (a the slope, b the
\* intercept) at every grid point and for every fitted a and b.
C2_SlopeA ==
    (pc = "c_call" /\ GridBuilt) =>
        \A i \in 1..Len(y_fit) :
            REq(y_fit[i], RAdd(RMul(R(results["a"]), data_range[i]), R(results["b"])))

C2_Witness ==
    /\ pc = "c_call"
    /\ GridBuilt
    /\ results["a"] = 3
    /\ results["b"] = 1
    /\ REq(data_range[1], R(2))
    /\ REq(y_fit[1], R(7))

\* C3: c_model at x=5, a=2, b=1 returns 11.
C3_ElevenAtFive ==
    (pc = "c_call" /\ GridBuilt /\ results["a"] = 2 /\ results["b"] = 1) =>
        \A i \in 1..Len(y_fit) :
            REq(data_range[i], R(5)) => REq(y_fit[i], R(11))

C3_Witness ==
    /\ pc = "c_call"
    /\ GridBuilt
    /\ results["a"] = 2
    /\ results["b"] = 1
    /\ \E i \in 1..Len(y_fit) : REq(data_range[i], R(5)) /\ y_fit[i].n = 11 * y_fit[i].d

\* C4: b_model(x, a, b) returns a + b*x at every grid point and for every
\* fitted a and b; at x=2, a=1, b=3 it returns 7.
C4_LinearB ==
    (pc = "b_call" /\ GridBuilt) =>
        \A i \in 1..Len(y_fit) :
            /\ REq(y_fit[i], RAdd(R(results["a"]), RMul(R(results["b"]), data_range[i])))
            /\ (REq(data_range[i], R(2)) /\ results["a"] = 1 /\ results["b"] = 3)
                   => REq(y_fit[i], R(7))

C4_Witness ==
    /\ pc = "b_call"
    /\ GridBuilt
    /\ results["a"] = 1
    /\ results["b"] = 3
    /\ \E i \in 1..Len(y_fit) : REq(data_range[i], R(2)) /\ y_fit[i].n = 7 * y_fit[i].d

\* C5: the pipelines run in the order a, b, c without interleaving: no step
\* of b before a's display has finished, none of c before b's display has
\* finished, and each pipeline is run at most once.
C5_PipelinesInOrder ==
    /\ \A i, j \in 1..Len(events) :
          i < j => Rank(events[i].pipe) <= Rank(events[j].pipe)
    /\ \A j \in 1..Len(events) :
          /\ events[j].pipe = "b" => \E i \in Idx("a", "show") : i < j /\ events[i].ok
          /\ events[j].pipe = "c" => \E i \in Idx("b", "show") : i < j /\ events[i].ok
    /\ \A p \in Pipelines :
          /\ Cardinality(Idx(p, "load")) <= 1
          /\ Cardinality(Idx(p, "xy_data")) <= 1
    /\ step # "idle" => \A i \in 1..Len(events) : Rank(events[i].pipe) <= Rank(Pipe(pc))

C5_Witness ==
    /\ pc = "exit"
    /\ error.pipe = "none"
    /\ Idx("a", "show") # {}
    /\ Idx("b", "show") # {}
    /\ Idx("c", "show") # {}

\* C6: a failed fit ends its pipeline at the fit step: the fit is not run
\* again, no report is emitted for that pipeline, its chart file is never
\* written and its display never opened.
C6_FitFailureAborts ==
    \A p \in Pipelines :
        \A i \in Idx(p, "do_fit") :
            ~events[i].ok =>
                /\ i = Len(events)
                /\ Cardinality(Idx(p, "do_fit")) = 1
                /\ Idx(p, "report") = {}
                /\ Idx(p, "savefig") = {}
                /\ Idx(p, "show") = {}
                /\ WrittenBy(p) = {}
                /\ step = "idle"

C6_Witness ==
    /\ error = [pipe |-> "b", step |-> "do_fit"]
    /\ Idx("b", "do_fit") # {}
    /\ Idx("a", "show") # {}

\* C7: when loading a.txt fails the run ends before any fit: no fit is
\* executed, no report emitted and no chart file written.
C7_LoadFailureEndsRun ==
    (\E i \in Idx("a", "load") : ~events[i].ok) =>
        /\ pc = "exit"
        /\ \A p \in Pipelines :
              /\ Idx(p, "do_fit") = {}
              /\ Idx(p, "report") = {}
        /\ written = <<>>

C7_Witness ==
    /\ error = [pipe |-> "a", step |-> "load"]
    /\ pc = "exit"
    /\ \E i \in Idx("a", "load") : ~events[i].ok

\* C8: inside a pipeline the steps happen in one order, each at most once:
\* fit, report, chart file, display; the file is never written before the
\* report and the display never opened before the file is written.
C8_StepsInOrder ==
    /\ \A i, j \in 1..Len(events) :
          (i < j /\ events[i].pipe = events[j].pipe)
              => StepRank(events[i].step) < StepRank(events[j].step)
    /\ \A p \in Pipelines :
          /\ \A j \in Idx(p, "report") : \E i \in Idx(p, "do_fit") : i < j /\ events[i].ok
          /\ \A j \in Idx(p, "savefig") : \E i \in Idx(p, "report") : i < j
          /\ \A j \in Idx(p, "show") :
                \E i \in Idx(p, "savefig") : i < j /\ events[i].ok /\ WrittenBy(p) # {}

C8_Witness ==
    /\ Idx("a", "do_fit") # {}
    /\ Idx("a", "report") # {}
    /\ Idx("a", "savefig") # {}
    /\ Idx("a", "show") # {}
    /\ WrittenBy("a") # {}

\* C9: pipeline a writes only 370_a.pdf, b only 370_b.pdf and c only
\* 370_c.pdf, whatever the data and the fit result.
C9_FilenamesFixed ==
    \A i \in 1..Len(written) :
        /\ written[i].name = "370_" \o written[i].pipe \o ".pdf"
        /\ written[i].pipe \in Pipelines
        /\ \A j \in 1..Len(written) : written[j].name = written[i].name => j = i

C9_Witness ==
    /\ Len(written) = 3
    /\ written[1].name = "370_a.pdf"
    /\ written[2].name = "370_b.pdf"
    /\ written[3].name = "370_c.pdf"

\* C10: a failure ends the run, so nothing of a later pipeline follows it:
\* 370_b.pdf is written only after 370_a.pdf, and 370_c.pdf only after
\* 370_b.pdf.
C10_FailuresCascade ==
    /\ \A i \in 1..Len(events) :
          ~events[i].ok =>
              /\ i = Len(events)
              /\ pc = "exit"
              /\ \A q \in Pipelines :
                    Rank(q) > Rank(events[i].pipe) =>
                        \A j \in 1..Len(events) : events[j].pipe # q
    /\ \A j \in 1..Len(written) :
          /\ written[j].name = "370_b.pdf"
                => \E i \in 1..Len(written) : i < j /\ written[i].name = "370_a.pdf"
          /\ written[j].name = "370_c.pdf"
                => \E i \in 1..Len(written) : i < j /\ written[i].name = "370_b.pdf"

C10_Witness ==
    /\ error.pipe = "b"
    /\ pc = "exit"
    /\ Len(written) = 1
    /\ written[1].name = "370_a.pdf"
    /\ \A j \in 1..Len(events) : events[j].pipe # "c"

====
